---------------------------- MODULE Spec2Model ----------------------------
(***************************************************************************)
(* A model of the Alfis ledger: src/src/blockchain.rs (Blockchain) and     *)
(* src/src/transaction.rs (Transaction).                                   *)
(*                                                                         *)
(* Values.  Bytes is a sequence of naturals: Bytes::default() is the empty *)
(* sequence, a digest is a one-element sequence.  Option<T> is a sequence  *)
(* of length at most one: None is <<>>, Some(x) is <<x>>.  A domain name   *)
(* is a sequence of characters, "." being the separator.  A String holding *)
(* JSON is the sequence of the serialized fields, the empty String <<>>.   *)
(***************************************************************************)
EXTENDS Integers, Sequences, FiniteSets

(***************************************************************************)
(* Bounds of the model.                                                    *)
(***************************************************************************)
\* most rows the blocks table holds
MaxBlocks == 3
\* number of distinct block digests
HashMod == 2
\* longest domain name made of the alphabet
MaxNameLen == 3

VARIABLES
    chain_name,       \* Blockchain.chain_name
    version_flags,    \* Blockchain.version_flags
    blocks,           \* Blockchain.blocks: Vec<Block>
    last_block,       \* Blockchain.last_block: Option<Block>
    db_blocks,        \* table blocks, in insertion (rowid) order
    db_transactions,  \* table transactions, in insertion order (row i has id i)
    pc,               \* "running", or "panicked" after a failed expect()
    rows_at_start,    \* rows the blocks table held when this process was constructed
    outcome           \* what the last operation printed or returned

vars == <<chain_name, version_flags, blocks, last_block, db_blocks,
          db_transactions, pc, rows_at_start, outcome>>

\* the in-memory fields of Blockchain
memory == <<chain_name, version_flags, blocks, last_block>>
\* the two tables of blockchain.db
storage == <<db_blocks, db_transactions>>

(***************************************************************************)
(* Option and Bytes.                                                       *)
(***************************************************************************)
None == <<>>
Some(x) == <<x>>
BytesDefault == <<>>
BytesZero64 == <<0, 0>>

(***************************************************************************)
(* Domain names and keys.                                                  *)
(***************************************************************************)
Alphabet == {"a", "."}
ShortNames == UNION {[1..n -> Alphabet] : n \in 0..MaxNameLen}
K1 == <<1>>
K2 == <<2>>
Keys == {K1, K2}
\* the names the callers of is_domain_available ask about
QueryNames == {<<>>, <<"a">>, <<"a", ".", "a">>, <<"a", ".", "a", ".", "a">>}
\* the names producers embed claims on
ClaimNames == {<<"a">>, <<"a", ".", "a">>, <<"a", ".", "a", ".", "a">>}
\* the names is_domain_available is examined on
Names == ShortNames \cup QueryNames \cup ClaimNames

RECURSIVE NameCode(_)
\* the bytes of a name as one number, different for different names
NameCode(s) ==
    IF s = <<>> THEN 1
    ELSE 2 * NameCode(SubSeq(s, 1, Len(s) - 1)) + (IF s[Len(s)] = "." THEN 1 ELSE 0)

\* Transaction::hash_identity: SHA-256 of the name, taken as collision free
hash_identity(identity) == <<NameCode(identity)>>

\* Transaction::new: the signature starts as Bytes::zero64()
TransactionNew(identity, method, data, pub_key) ==
    [identity |-> identity, method |-> method, data |-> data,
     pub_key |-> pub_key, signature |-> BytesZero64]

\* Transaction::from_str: the name is hashed into the identity
from_str(identity, method, data, pub_key) ==
    TransactionNew(hash_identity(identity), method, data, pub_key)

\* Transaction::to_string: the five fields in the order of Serialize
to_string(t) == <<t.identity, t.method, t.data, t.pub_key, t.signature>>

\* Transaction::from_json: None when the text is not a serialized Transaction
from_json(json) ==
    IF Len(json) = 5
    THEN Some([identity |-> json[1], method |-> json[2], data |-> json[3],
               pub_key |-> json[4], signature |-> json[5]])
    ELSE None

Transactions == {from_str(n, "register", "", k) : n \in ClaimNames, k \in Keys}

(***************************************************************************)
(* Blocks and their hash.                                                  *)
(***************************************************************************)
Digests == {<<h>> : h \in 0..(HashMod - 1)}
\* the index values producers hand in
Indexes == {0, 1}

\* the candidate blocks a producer may hand to add_block: any index, with or
\* without a claim, any previous hash and any hash
Blocks ==
    [index : Indexes, timestamp : {0}, chain_name : {"alfis"},
     version_flags : {1}, difficulty : {0}, random : {0}, nonce : {0},
     transaction : {None, Some(from_str(<<"a">>, "register", "", K1))},
     prev_block_hash : Digests, hash : Digests]

\* the candidate blocks of the specification of the name claims: one index,
\* every claim, any previous hash and any hash
NameBlocks ==
    [index : {0}, timestamp : {0}, chain_name : {"alfis"},
     version_flags : {1}, difficulty : {0}, random : {0}, nonce : {0},
     transaction : {Some(t) : t \in Transactions},
     prev_block_hash : Digests, hash : Digests]

\* the arguments of Blockchain::new
NewArgs == {<<"alfis", 1>>, <<"test", 0>>}

BytesCode(b) == IF b = <<>> THEN 0 ELSE b[1] + 1
StrCode(s) == IF s = "alfis" THEN 1 ELSE 2
TransactionCode(o) ==
    IF o = None THEN 0 ELSE 1 + BytesCode(o[1].identity) + 2 * BytesCode(o[1].pub_key)

\* serde_json::to_string(&block): the fields as numbers, in declaration order
BlockData(b) ==
    <<b.index, b.timestamp, StrCode(b.chain_name), b.version_flags, b.difficulty,
      b.random, b.nonce, TransactionCode(b.transaction),
      BytesCode(b.prev_block_hash), BytesCode(b.hash)>>

RECURSIVE SumSeq(_)
SumSeq(s) == IF s = <<>> THEN 0 ELSE s[1] + SumSeq(Tail(s))

\* Block::hash: a digest of the serialized bytes
BlockHash(data) == <<SumSeq(data) % HashMod>>

\* Blockchain::check_block_hash
check_block_hash(block) ==
    LET copy == [block EXCEPT !.hash = BytesDefault]
        data == BlockData(copy)
    IN  BlockHash(data) = block.hash

\* check_block without the comparison of line 173
check_block_NoLink(block, prev_block) == check_block_hash(block)

\* check_block without the call of check_block_hash of lines 166-168
check_block_NoHash(block, prev_block) ==
    IF prev_block = None THEN TRUE
    ELSE block.prev_block_hash = prev_block[1].hash

\* check_block asking a first block for the default previous hash
check_block_GenesisDefault(block, prev_block) ==
    IF ~check_block_hash(block) THEN FALSE
    ELSE IF prev_block = None THEN block.prev_block_hash = BytesDefault
    ELSE block.prev_block_hash = prev_block[1].hash

\* check_block asking also for the index that follows the previous block's
check_block_IndexChecked(block, prev_block) ==
    IF ~check_block_hash(block) THEN FALSE
    ELSE IF prev_block = None THEN TRUE
    ELSE /\ block.prev_block_hash = prev_block[1].hash
         /\ block.index = prev_block[1].index + 1

\* Blockchain::check_block
check_block(block, prev_block) ==
    IF ~check_block_hash(block) THEN FALSE
    ELSE IF prev_block = None THEN TRUE
    ELSE block.prev_block_hash = prev_block[1].hash

(***************************************************************************)
(* The tables.                                                             *)
(***************************************************************************)
\* BlockRow binding the empty string as column 8 for every block
BlockRow_EmptyTransaction(block) ==
    [id |-> block.index, timestamp |-> block.timestamp,
     chain_name |-> block.chain_name, version_flags |-> block.version_flags,
     difficulty |-> block.difficulty, random |-> block.random,
     nonce |-> block.nonce, transaction |-> <<>>,
     prev_block_hash |-> block.prev_block_hash, hash |-> block.hash]

\* the row add_block binds for a block (columns 1 to 10)
BlockRow(block) ==
    [id |-> block.index, timestamp |-> block.timestamp,
     chain_name |-> block.chain_name, version_flags |-> block.version_flags,
     difficulty |-> block.difficulty, random |-> block.random,
     nonce |-> block.nonce,
     transaction |-> IF block.transaction = None THEN <<>>
                     ELSE to_string(block.transaction[1]),
     prev_block_hash |-> block.prev_block_hash, hash |-> block.hash]

\* Blockchain::get_block_from_statement
get_block_from_statement(row) ==
    Some([index |-> row.id, timestamp |-> row.timestamp,
          chain_name |-> row.chain_name, version_flags |-> row.version_flags,
          difficulty |-> row.difficulty, random |-> row.random,
          nonce |-> row.nonce, transaction |-> from_json(row.transaction),
          prev_block_hash |-> row.prev_block_hash, hash |-> row.hash])

\* the row add_transaction binds for a transaction
TransactionRow(t) ==
    [identity |-> t.identity, method |-> t.method, data |-> t.data,
     pub_key |-> t.pub_key, signature |-> t.signature]

\* SELECT * FROM blocks ORDER BY id DESC LIMIT 1: the rows returned, none or
\* the row whose id column (the block's index) is greatest; block_index, the
\* index on id, is read backwards, so of equal ids the row inserted last
SelectLastBlock ==
    IF db_blocks = <<>> THEN <<>>
    ELSE LET p == CHOOSE i \in DOMAIN db_blocks :
                     \A j \in DOMAIN db_blocks :
                         \/ db_blocks[j].id < db_blocks[i].id
                         \/ db_blocks[j].id = db_blocks[i].id /\ j <= i
         IN  <<db_blocks[p]>>

\* SelectLastTransaction with ORDER BY id ASC: the matching row inserted first
SelectLastTransaction_First(identity_hash) ==
    LET matching == {i \in DOMAIN db_transactions :
                        db_transactions[i].identity = identity_hash}
    IN  IF matching = {} THEN <<>>
        ELSE <<db_transactions[CHOOSE i \in matching : \A j \in matching : i <= j]>>

\* SELECT ... FROM transactions WHERE identity = ? ORDER BY id DESC LIMIT 1:
\* the rows returned, none or the matching row inserted last
SelectLastTransaction(identity_hash) ==
    LET matching == {i \in DOMAIN db_transactions :
                        db_transactions[i].identity = identity_hash}
    IN  IF matching = {} THEN <<>>
        ELSE <<db_transactions[CHOOSE i \in matching : \A j \in matching : j <= i]>>

(***************************************************************************)
(* Domain availability.                                                    *)
(***************************************************************************)
contains(s, c) == \E i \in DOMAIN s : s[i] = c

\* str::rsplitn(2, "."): the part after the last separator, then the rest
rsplitn2(domain) ==
    IF ~contains(domain, ".") THEN <<domain>>
    ELSE LET p == CHOOSE i \in DOMAIN domain :
                     /\ domain[i] = "."
                     /\ \A j \in DOMAIN domain : domain[j] = "." => j <= i
         IN  <<SubSeq(domain, p + 1, Len(domain)), SubSeq(domain, 1, p - 1)>>

\* OwnerCheck without the comparison of line 124
OwnerCheck_AnyKey(domain, keystore) == TRUE

\* OwnerCheck reading the claims of the in-memory `blocks` in place of the
\* transactions table
OwnerCheck_FromMemory(domain, keystore) ==
    \A i \in DOMAIN blocks :
        (/\ blocks[i].transaction # None
         /\ blocks[i].transaction[1].identity = hash_identity(domain))
            => blocks[i].transaction[1].pub_key = keystore

\* lines 119-127: no returned row carries a key other than the claimant's
OwnerCheck(domain, keystore) ==
    LET rows == SelectLastTransaction(hash_identity(domain))
    IN  \A i \in DOMAIN rows : rows[i].pub_key = keystore

\* ZoneCheck returning true whether or not the query of line 137 finds a row
ZoneCheck_Always(zone) == TRUE

\* lines 136-143: a row exists for the zone
ZoneCheck(zone) == SelectLastTransaction(hash_identity(zone)) # <<>>

\* ThirdLevel looking at parts.first() in place of parts.last()
ThirdLevel_First(parts) == contains(parts[1], ".")

\* line 132: parts.last() holds a further separator
ThirdLevel(parts) == contains(parts[Len(parts)], ".")

\* Blockchain::is_domain_available; keystore stands for keystore.get_public()
is_domain_available(domain, keystore) ==
    IF domain = <<>> THEN FALSE
    ELSE IF ~OwnerCheck(domain, keystore) THEN FALSE
    ELSE LET parts == rsplitn2(domain)
         IN  IF Len(parts) > 1
             THEN IF ThirdLevel(parts) THEN FALSE
                  ELSE ZoneCheck(parts[1])
             ELSE TRUE

(***************************************************************************)
(* Operations.                                                             *)
(***************************************************************************)
\* Blockchain::new on a store that does not exist yet
Init ==
    /\ \E a \in NewArgs : chain_name = a[1] /\ version_flags = a[2]
    /\ blocks = <<>>
    /\ last_block = None
    /\ db_blocks = <<>>
    /\ db_transactions = <<>>
    /\ pc = "running"
    /\ rows_at_start = 0
    /\ outcome = "created"

\* PushBlock without the push of line 66
PushBlock_TipOnly(block) ==
    /\ blocks' = blocks
    /\ last_block' = Some(block)

\* lines 66-67: the block joins the sequence and becomes the tip
PushBlock(block) ==
    /\ blocks' = Append(blocks, block)
    /\ last_block' = Some(block)

\* lines 72-91: INSERT INTO blocks
InsertBlock(block) == db_blocks' = Append(db_blocks, BlockRow(block))

\* Blockchain::add_transaction: INSERT INTO transactions
add_transaction(t) == db_transactions' = Append(db_transactions, TransactionRow(t))

\* lines 94-99: the transaction row, when the block carries a transaction
StoreTransaction(block) ==
    IF block.transaction = None THEN UNCHANGED db_transactions
    ELSE add_transaction(block.transaction[1])

\* IgnoreBlock with lines 94-99 run for a bad block too
IgnoreBlock_Stores(block) ==
    /\ outcome' = IF block.transaction = None THEN "bad block"
                  ELSE "bad block with transaction"
    /\ StoreTransaction(block)
    /\ UNCHANGED <<memory, db_blocks, pc, rows_at_start>>

\* lines 100-102: a bad block is reported, the report showing the block (here:
\* whether it carries a transaction), and nothing else happens
IgnoreBlock(block) ==
    /\ outcome' = IF block.transaction = None THEN "bad block"
                  ELSE "bad block with transaction"
    /\ UNCHANGED <<memory, storage, pc, rows_at_start>>

\* the INSERT of the block row failing after the transaction row was written
FailInsertBlock_TransactionFirst(block) ==
    /\ StoreTransaction(block)
    /\ UNCHANGED db_blocks
    /\ pc' = "panicked"
    /\ outcome' = "error adding block to DB"

\* line 91: the INSERT of the block row fails and expect() panics
FailInsertBlock(block) ==
    /\ UNCHANGED storage
    /\ pc' = "panicked"
    /\ outcome' = "error adding block to DB"

\* line 112: the block row is written, the INSERT of the transaction row fails
\* and expect() panics
FailInsertTransaction(block) ==
    /\ block.transaction # None
    /\ InsertBlock(block)
    /\ UNCHANGED db_transactions
    /\ pc' = "panicked"
    /\ outcome' = "error adding transaction to DB"

\* Blockchain::add_block.  Each insert either succeeds or fails; a failed insert
\* panics in expect() with the state reached so far.
add_block(block) ==
    /\ pc = "running"
    /\ IF check_block(block, last_block)
       THEN /\ Len(db_blocks) < MaxBlocks
            /\ PushBlock(block)
            /\ UNCHANGED <<chain_name, version_flags, rows_at_start>>
            /\ \/ /\ InsertBlock(block)
                  /\ StoreTransaction(block)
                  /\ pc' = "running"
                  /\ outcome' = "adding block"
               \/ FailInsertBlock(block)
               \/ FailInsertTransaction(block)
       ELSE IgnoreBlock(block)

\* Blockchain::init_db on a store that holds the tables
init_db(name, flags) ==
    IF SelectLastBlock = <<>>
    THEN /\ chain_name' = name
         /\ version_flags' = flags
         /\ last_block' = None
         /\ outcome' = "started"
    ELSE    LET loaded == get_block_from_statement(SelectLastBlock[1])
            IN  IF loaded = None
                THEN /\ chain_name' = name
                     /\ version_flags' = flags
                     /\ last_block' = None
                     /\ outcome' = "bad row"
                ELSE /\ chain_name' = loaded[1].chain_name
                     /\ version_flags' = loaded[1].version_flags
                     /\ last_block' = loaded
                     /\ outcome' = "loaded"

\* the process ends (or has panicked) and Blockchain::new runs on the same store
Restart(name, flags) ==
    /\ blocks' = <<>>
    /\ init_db(name, flags)
    /\ pc' = "running"
    /\ rows_at_start' = Len(db_blocks)
    /\ UNCHANGED storage

\* a call of is_domain_available: its return value is the outcome
Query(domain, keystore) ==
    /\ pc = "running"
    /\ outcome' = IF is_domain_available(domain, keystore)
                  THEN "available" ELSE "not available"
    /\ UNCHANGED <<memory, storage, pc, rows_at_start>>

Next ==
    \/ \E block \in Blocks : add_block(block)
    \/ \E a \in NewArgs : Restart(a[1], a[2])
    \/ \E domain \in QueryNames, keystore \in Keys : Query(domain, keystore)

\* the ledger fed with blocks of every index
Spec == Init /\ [][Next]_vars

NextNames ==
    \/ \E block \in NameBlocks : add_block(block)
    \/ \E domain \in QueryNames, keystore \in Keys : Query(domain, keystore)

\* one process lifetime of the ledger, fed with blocks of every claim
SpecNames == Init /\ [][NextNames]_vars

\* candidate blocks that differ in index and timestamp
WideBlocks ==
    [index : Indexes, timestamp : {0, 1}, chain_name : {"alfis"},
     version_flags : {1}, difficulty : {0}, random : {0}, nonce : {0},
     transaction : {None}, prev_block_hash : Digests, hash : Digests]

NextCheck == \E block \in WideBlocks : add_block(block)

\* one process lifetime of the ledger, fed with blocks of every index and
\* timestamp
SpecCheck == Init /\ [][NextCheck]_vars

\* a non-empty text of column 8 that serde_json does not parse as a Transaction
MalformedJson == <<"{">>

\* the rows an existing blockchain.db may hold as its most recent block row:
\* the row of a self-hashed block without a transaction, its column 8 empty
\* or malformed
StoredRows ==
    {[BlockRow(block) EXCEPT !.transaction = text] :
        block \in {b \in Blocks : b.transaction = None /\ check_block_hash(b)},
        text \in {<<>>, MalformedJson}}

\* before Blockchain::new is called on an existing store of one block row
InitStore ==
    /\ chain_name = ""
    /\ version_flags = 0
    /\ blocks = <<>>
    /\ last_block = None
    /\ \E row \in StoredRows : db_blocks = <<row>>
    /\ db_transactions = <<>>
    /\ pc = "stopped"
    /\ rows_at_start = 0
    /\ outcome = "none"

NextStore ==
    \/ \E a \in NewArgs : Restart(a[1], a[2])
    \/ \E block \in Blocks : add_block(block)
    \/ \E domain \in QueryNames, keystore \in Keys : Query(domain, keystore)

\* the ledger constructed on a store that already holds a block row
SpecStore == InitStore /\ [][NextStore]_vars

(***************************************************************************)
(* The claims.                                                             *)
(***************************************************************************)
\* the block a row of the blocks table was written for
RowBlock(row) == get_block_from_statement(row)[1]
LastRow == db_blocks[Len(db_blocks)]

\* C1: in every state, every two adjacent blocks of `blocks` are hash-linked:
\* blocks[i+1].prev_block_hash = blocks[i].hash.
C1_AdjacentBlocksLinked ==
    \A i \in 1..(Len(blocks) - 1) : blocks[i + 1].prev_block_hash = blocks[i].hash

\* two blocks were accepted in this process lifetime
C1_Witness == pc = "running" /\ Len(blocks) >= 2

\* C2: every block of `blocks`, the tip left by an append, and every row of
\* the blocks table is a block whose hash is the hash of its serialization
\* with the hash field reset to the default.
C2_AcceptedBlocksSelfHashed ==
    /\ \A i \in DOMAIN blocks : check_block_hash(blocks[i])
    /\ blocks # <<>> => last_block # None /\ check_block_hash(last_block[1])
    /\ \A i \in DOMAIN db_blocks : check_block_hash(RowBlock(db_blocks[i]))

\* a block was accepted and written, and a candidate with a wrong hash exists
C2_Witness ==
    /\ outcome = "adding block"
    /\ blocks # <<>> /\ db_blocks # <<>>
    /\ \E block \in Blocks : ~check_block_hash(block)

\* C3: rejection is a no-op.  A step that reports a bad block changes neither
\* blocks, the tip, chain_name, version_flags, the blocks table nor the
\* transactions table, with or without a transaction in the block; and a step
\* of add_block that does not report a bad block was given a block that passes
\* check_block against the tip, so every block that fails it is reported bad.
C3_RejectionIsNoOp ==
    [][/\ outcome' \in {"bad block", "bad block with transaction"}
            => UNCHANGED <<memory, storage>>
       /\ (pc = "running" /\ Len(blocks') > Len(blocks))
            => /\ outcome' \notin {"bad block", "bad block with transaction"}
               /\ check_block(blocks'[Len(blocks')], last_block)]_vars

\* a block carrying a transaction was rejected by a ledger that holds a block
C3_Witness ==
    /\ outcome = "bad block with transaction"
    /\ last_block # None /\ db_blocks # <<>>

\* C4: with no tip, a call of add_block with a block whose self-hash is correct
\* makes the block the tip and the last element of blocks, whatever its
\* previous hash and index, and the block has a row in the blocks table as
\* soon as the insert of that row has not failed.
C4_GenesisAccepted ==
    [][\A block \in Blocks :
          (last_block = None /\ check_block_hash(block) /\ add_block(block))
              => /\ last_block' = Some(block)
                 /\ blocks' = Append(blocks, block)
                 /\ outcome' # "error adding block to DB"
                      => /\ db_blocks' # <<>>
                         /\ db_blocks'[Len(db_blocks')] = BlockRow(block)]_vars

\* a first block with index 1 and a previous hash that is not the default
\* was accepted on an empty store
C4_Witness ==
    /\ outcome = "adding block"
    /\ rows_at_start = 0 /\ Len(blocks) = 1 /\ Len(db_blocks) = 1
    /\ blocks[1].index = 1 /\ blocks[1].prev_block_hash = <<1>>
    /\ last_block = Some(blocks[1])

\* C5: right after a restart on a store that holds blocks, the tip is the
\* block of the row inserted last, and chain_name and version_flags are that
\* block's.
C5_RestartRestoresLastStored ==
    outcome = "loaded"
        => /\ last_block = get_block_from_statement(LastRow)
           /\ chain_name = LastRow.chain_name
           /\ version_flags = LastRow.version_flags

\* the number of separators of a name
Separators(name) == Cardinality({i \in DOMAIN name : name[i] = "."})
\* the ids of the rows of the transactions table that claim a name
RowsFor(name) ==
    {i \in DOMAIN db_transactions : db_transactions[i].identity = hash_identity(name)}
\* the key of the claim on a name that was inserted last
LatestKey(name) ==
    db_transactions[CHOOSE i \in RowsFor(name) : \A j \in RowsFor(name) : j <= i].pub_key
\* the zone of a name with one separator: what follows the separator
ZoneOf(name) ==
    LET p == CHOOSE i \in DOMAIN name : name[i] = "."
    IN  SubSeq(name, p + 1, Len(name))

\* C6: whenever the transactions table holds any row for hash(name) whose
\* pub_key differs from K, is_domain_available(name, K) is false.
C6_AnyForeignClaimBlocks ==
    \A name \in Names, k \in Keys :
        (\E i \in RowsFor(name) : db_transactions[i].pub_key # k)
            => ~is_domain_available(name, k)

\* C7: for a name of one level (not empty, no separator): with no row for
\* hash(name) the name is available to every key; when the only row for
\* hash(name) is a claim by K1, the name is available to K1 and to no other key.
C7_SingleLevelOwner ==
    \A name \in Names :
        (name # <<>> /\ Separators(name) = 0)
            => /\ RowsFor(name) = {}
                    => \A k \in Keys : is_domain_available(name, k)
               /\ \A k1 \in Keys :
                     (Cardinality(RowsFor(name)) = 1 /\ LatestKey(name) = k1)
                        => /\ is_domain_available(name, k1)
                           /\ \A k2 \in Keys \ {k1} : ~is_domain_available(name, k2)

\* the only claim on "a" is by K1 and was written by an accepted block, next
\* to a claim on another name
C7_Witness ==
    /\ outcome = "adding block"
    /\ Cardinality(RowsFor(<<"a">>)) = 1 /\ LatestKey(<<"a">>) = K1
    /\ Len(db_transactions) >= 2

\* C8, as claimed: a name with one separator is available to no key while its
\* zone has no claim, and to every key once its zone has a claim.
C8_ZoneClaimSuffices ==
    \A name \in Names :
        Separators(name) = 1
            => \A k \in Keys :
                  is_domain_available(name, k) = (RowsFor(ZoneOf(name)) # {})

\* C8, amended: in every state, a name with one separator is available to no
\* key while its zone has no claim; once its zone has a claim it is available
\* to exactly the keys that pass the owner check on the name itself: every key
\* when the name has no claim, else the key of its latest claim.
C8_ZoneClaimAndOwner ==
    \A name \in Names :
        Separators(name) = 1
            => \A k \in Keys :
                  is_domain_available(name, k) =
                     (/\ RowsFor(ZoneOf(name)) # {}
                      /\ RowsFor(name) = {} \/ LatestKey(name) = k)

\* the zone "a" has a claim and the latest claim on "a.a" is by K1
C8_Witness ==
    /\ RowsFor(<<"a">>) # {}
    /\ RowsFor(<<"a", ".", "a">>) # {} /\ LatestKey(<<"a", ".", "a">>) = K1
    /\ is_domain_available(<<"a", ".", "a">>, K1)
    /\ ~is_domain_available(<<"a", ".", "a">>, K2)

\* C9: a name with two or more separators is available to no key, in every
\* state, whatever claims the transactions table holds.
C9_ThirdLevelNeverAvailable ==
    \A name \in Names :
        Separators(name) >= 2 => \A k \in Keys : ~is_domain_available(name, k)

\* "a.a.a" is claimed by K1 and its last component "a" is claimed too, so only
\* the check of line 132 keeps "a.a.a" from K1
C9_Witness ==
    /\ RowsFor(<<"a", ".", "a", ".", "a">>) # {}
    /\ LatestKey(<<"a", ".", "a", ".", "a">>) = K1
    /\ RowsFor(<<"a">>) # {}

\* C10: in a process lifetime started on an empty store, in every state the
\* tip is the block of the row inserted last, and absent exactly when the
\* blocks table has no row.
C10_TipIsLastStored ==
    rows_at_start = 0
        => last_block = IF db_blocks = <<>> THEN None
                        ELSE get_block_from_statement(LastRow)

\* the transaction columns of the block rows that carry a transaction, in
\* insertion order
RECURSIVE StoredClaims(_)
StoredClaims(rows) ==
    IF rows = <<>> THEN <<>>
    ELSE IF rows[1].transaction = <<>> THEN StoredClaims(Tail(rows))
    ELSE <<rows[1].transaction>> \o StoredClaims(Tail(rows))

\* C11: in every state of the store, also the one a failed insert leaves, the
\* rows of the transactions table are, in order, the transactions of the first
\* block rows that carry one: no transaction row without the row of its block.
C11_BlockRowBeforeTransactionRow ==
    LET claims == StoredClaims(db_blocks)
    IN  /\ Len(db_transactions) <= Len(claims)
        /\ \A i \in DOMAIN db_transactions :
              claims[i] = <<db_transactions[i].identity, db_transactions[i].method,
                            db_transactions[i].data, db_transactions[i].pub_key,
                            db_transactions[i].signature>>

\* the insert of a transaction row failed after its block row was written,
\* in a store that already holds a transaction row
C11_Witness ==
    /\ pc = "panicked"
    /\ outcome = "error adding transaction to DB"
    /\ db_transactions # <<>>
    /\ Len(StoredClaims(db_blocks)) = Len(db_transactions) + 1

\* C12: a step in which add_block accepts and stores a block changes exactly
\* this: `blocks` gains that block at its end, the tip becomes that block, the
\* blocks table gains one row for it whose transaction column is the
\* serialization of its transaction or the empty string, the transactions table
\* gains one row when the block carries a transaction and none otherwise;
\* chain_name, version_flags and the earlier rows stay.
C12_AcceptedBlockFrame ==
    [][(pc = "running" /\ pc' = "running" /\ Len(blocks') = Len(blocks) + 1)
          => LET block == blocks'[Len(blocks')]
                 row == db_blocks'[Len(db_blocks')]
             IN  /\ blocks' = Append(blocks, block)
                 /\ last_block' = Some(block)
                 /\ Len(db_blocks') = Len(db_blocks) + 1
                 /\ SubSeq(db_blocks', 1, Len(db_blocks)) = db_blocks
                 /\ get_block_from_statement(row) = Some(block)
                 /\ row.transaction = IF block.transaction = None THEN <<>>
                                      ELSE to_string(block.transaction[1])
                 /\ IF block.transaction = None
                    THEN db_transactions' = db_transactions
                    ELSE /\ Len(db_transactions') = Len(db_transactions) + 1
                         /\ SubSeq(db_transactions', 1, Len(db_transactions))
                                = db_transactions
                         /\ LET t == db_transactions'[Len(db_transactions')]
                            IN  /\ t.identity = block.transaction[1].identity
                                /\ t.method = block.transaction[1].method
                                /\ t.data = block.transaction[1].data
                                /\ t.pub_key = block.transaction[1].pub_key
                                /\ t.signature = block.transaction[1].signature
                 /\ UNCHANGED <<chain_name, version_flags>>]_vars

\* a block without a transaction and then a block with one were accepted and
\* stored
C12_Witness ==
    /\ outcome = "adding block"
    /\ Len(blocks) = 2
    /\ blocks[1].transaction = None
    /\ blocks[2].transaction # None
    /\ Len(db_blocks) = 2
    /\ Len(db_transactions) = 1

\* C13: a step of add_block in which the insert of the block row or of the
\* transaction row fails leaves `blocks`, the tip and both tables as they were
\* before the call.
C13_FailedWriteDiscarded ==
    [][outcome' \in {"error adding block to DB", "error adding transaction to DB"}
          => UNCHANGED <<blocks, last_block, db_blocks, db_transactions>>]_vars

\* column 8 of the row is not empty and does not parse as a Transaction
MalformedColumn(row) == row.transaction # <<>> /\ from_json(row.transaction) = None

\* C14: a startup whose most recent block row has a non-empty transaction column
\* that does not parse reports the failure and leaves the ledger running with
\* no tip and with the chain_name and version_flags the caller supplied.
C14_MalformedRowNoTip ==
    [][\A a \in NewArgs :
          (/\ Restart(a[1], a[2])
           /\ SelectLastBlock # <<>>
           /\ MalformedColumn(SelectLastBlock[1]))
              => /\ pc' = "running"
                 /\ outcome' = "bad row"
                 /\ last_block' = None
                 /\ chain_name' = a[1]
                 /\ version_flags' = a[2]]_vars

\* C15: a call of is_domain_available changes neither the memory nor the
\* tables, and its answer depends on the transactions table, the name and the
\* key alone: over a restart that empties `blocks` and keeps the table, the
\* answers for the claimed name and for a name of its zone stay the same.
C15_AvailabilityIsPureRead ==
    [][/\ outcome' \in {"available", "not available"}
            => UNCHANGED <<memory, storage, pc>>
       /\ (blocks # <<>> /\ blocks' = <<>> /\ db_transactions' = db_transactions)
            => \A domain \in {<<"a">>, <<"a", ".", "a">>}, keystore \in Keys :
                  is_domain_available(domain, keystore)'
                      = is_domain_available(domain, keystore)]_vars

\* a query answered after a restart: a claim is stored, `blocks` is empty
C15_Witness ==
    /\ outcome = "not available"
    /\ rows_at_start > 0
    /\ blocks = <<>>
    /\ db_transactions # <<>>

\* C16: for every candidate block and the tip as the previous block,
\* check_block is true exactly when the candidate's hash is the hash of its
\* contents and the previous block is absent or the candidate's
\* prev_block_hash is the previous block's hash; index, timestamp, chain_name
\* and version_flags of the two play no part.
C16_CheckBlockExactly ==
    \A block \in WideBlocks :
        check_block(block, last_block)
            <=> /\ check_block_hash(block)
                /\ \/ last_block = None
                   \/ block.prev_block_hash = last_block[1].hash

\* a block was accepted whose index does not follow the previous block's,
\* whose timestamp is earlier and whose chain_name and version_flags are not
\* the ledger's
C16_Witness ==
    /\ outcome = "adding block"
    /\ Len(blocks) = 2
    /\ blocks[2].index # blocks[1].index + 1
    /\ blocks[2].timestamp < blocks[1].timestamp
    /\ blocks[2].chain_name # chain_name
    /\ blocks[2].version_flags # version_flags

\* C17: a restart of a running ledger that accepted and stored at least one
\* block in this lifetime leaves the tip, chain_name and version_flags as they
\* were right before it (the store is not empty, so the constructor's
\* arguments play no part).
C17_RestartTransparent ==
    [][(pc = "running" /\ blocks # <<>> /\ blocks' = <<>>)
          => /\ last_block' = last_block
             /\ chain_name' = chain_name
             /\ version_flags' = version_flags]_vars

\* C18: after every operation, a non-empty `blocks` ends in the tip, and with
\* an empty `blocks` the tip is absent or the block loaded at startup from the
\* store, which the step has not changed; within a lifetime `blocks` changes only by gaining, at its end, a
\* block that add_block accepted on the tip of that moment.
C18_TipIsLastOfBlocks ==
    [][/\ blocks' # <<>> => last_block' = Some(blocks'[Len(blocks')])
       /\ blocks' = <<>>
            => \/ last_block' = None
               \/ /\ rows_at_start' > 0
                  /\ db_blocks' = db_blocks
                  /\ last_block' = get_block_from_statement(SelectLastBlock[1])
       /\ \/ blocks' = blocks
          \/ blocks' = <<>> /\ outcome' \in {"started", "loaded"}
          \/ /\ outcome' \in {"adding block", "error adding block to DB",
                               "error adding transaction to DB"}
             /\ Len(blocks') = Len(blocks) + 1
             /\ SubSeq(blocks', 1, Len(blocks)) = blocks
             /\ check_block(blocks'[Len(blocks')], last_block)]_vars

\* after a restart that loaded a tip, one block was accepted: `blocks` holds it
\* alone and not the blocks of the lifetime before
C18_Witness ==
    /\ pc = "running"
    /\ outcome = "adding block"
    /\ rows_at_start > 0
    /\ Len(blocks) = 1
    /\ Len(db_blocks) = rows_at_start + 1

\* the names of one level: not empty, no separator
SingleLevelNames == {name \in Names : name # <<>> /\ Separators(name) = 0}

\* C19: for a name of one level (not empty, no separator) and every key, the
\* name is available to the key exactly when the transactions table has no
\* row for hash(name) or the row for hash(name) inserted last carries that key;
\* the rows inserted before it play no part.
C19_LatestClaimDecides ==
    \A name \in SingleLevelNames, k \in Keys :
        is_domain_available(name, k)
            <=> (RowsFor(name) = {} \/ LatestKey(name) = k)

\* "a" was claimed by K1 and later by K2: the row inserted last decides, against
\* the older row
C19_Witness ==
    /\ Cardinality(RowsFor(<<"a">>)) >= 2
    /\ LatestKey(<<"a">>) = K2
    /\ \E i \in RowsFor(<<"a">>) : db_transactions[i].pub_key = K1
    /\ is_domain_available(<<"a">>, K2)
    /\ ~is_domain_available(<<"a">>, K1)

=============================================================================
